---- MODULE Spec2Model ----
(***************************************************************************)
(* upower-notify: the dispatch loop of src/main.rs (main, generate_body,   *)
(* format_duration) over the configuration tree of src/config.rs.          *)
(*                                                                         *)
(* The two zbus property streams are FIFO queues fed by the environment,   *)
(* tokio::select! polls its three branches in rotation from a random       *)
(* start, and tokio::signal::ctrl_c() is a listener that is registered     *)
(* when the future is first polled and dropped when the select! returns.   *)
(*                                                                         *)
(* Spec and FairSpec are the dispatch loop with the battery's metrics as   *)
(* they were at the start; SpecFresh lets the metrics change while the     *)
(* loop runs; SpecFormat and SpecBody are format_duration and              *)
(* generate_body on their own.                                             *)
(***************************************************************************)
EXTENDS Integers, Sequences, FiniteSets, TLC

\* ------------------------------------------------------------------ bounds
MaxEvents == 2      \* elements the two streams yield together, a final None included
MaxSignals == 1     \* SIGINTs the environment sends
MaxSeconds == 7400  \* largest duration given to format_duration in SpecFormat
MaxTokens == 3      \* longest body template of SpecBody, in words

\* ------------------------------------------------------------- data model
WarningLevel == {"Unknown", "None", "Discharging", "Low", "Critical", "Action"}

State ==
  {"Unknown", "Charging", "Discharging", "Empty", "FullyCharged",
   "PendingCharge", "PendingDischarge"}

Channels == {"warning", "state"}

Other(c) == IF c = "warning" THEN "state" ELSE "warning"

Variants(c) == IF c = "warning" THEN WarningLevel ELSE State

\* The fields of WarningLevelConfig and of StateConfig; an entry of the
\* configuration tree is addressed as <<table, field>>.
WarningLevelConfig == {"unknown", "none", "discharging", "low", "critical", "action"}

StateConfig ==
  {"unknown", "charging", "discharging", "empty", "fully_charged",
   "pending_charge", "pending_discharge"}

Entries ==
  ({"warning_level"} \X WarningLevelConfig) \cup ({"state"} \X StateConfig)

\* EventConfig: the notification's enable flag and the exec command list.
EventConfig(enable, commands) == [enable |-> enable, commands |-> commands]

\* Config::default(): low, critical and action notify, nothing is executed,
\* and every state entry is NotificationConfig::default() (disabled).
DefaultConfig ==
  [e \in Entries |->
     EventConfig(e \in {<<"warning_level", "low">>,
                        <<"warning_level", "critical">>,
                        <<"warning_level", "action">>}, <<>>)]

\* A user configuration merged over the defaults by Figment (main.rs:81-83):
\* every state entry notifies too, some entries (enabled and disabled ones)
\* execute one or two commands, and low is switched off.
UserConfig ==
  [e \in Entries |->
     EventConfig((DefaultConfig[e].enable \/ e[1] = "state") /\ e[2] # "low",
                 CASE e[2] \in {"low", "charging", "none"} -> <<"cmd1", "cmd2">>
                   [] e[2] \in {"critical", "empty", "unknown"} -> <<"cmd1">>
                   [] OTHER -> <<>>)]

Configs == {DefaultConfig, UserConfig}

NoHandle == 0

\* Values the device reports for time-to-empty (seconds) and percentage
\* (tenths of a percent).
TimeVals == {0, 3661}
Percentages == {425, 1000}

\* The Device proxy's two properties, TimeToEmpty (i64) and Percentage (f64).
Devices == [time_to_empty : TimeVals, percentage : Percentages]

\* The metrics of the battery when the program starts.
StartDevice == [time_to_empty |-> 3661, percentage |-> 425]

VARIABLES
  config,          \* the configuration tree, immutable after start
  pc,              \* position of main
  stream,          \* stream[c]: the buffered change events of channel c
  emitted,         \* emitted[c]: events the transport has emitted on c
  taken,           \* taken[c]: events select! has taken from stream c
  notification,    \* warning_notification / state_notification
  active_handle,   \* the slot borrowed by this iteration ("warning"/"state")
  selected_config, \* the entry resolved for this iteration
  event,           \* the element taken by select! ([seq, val])
  cmd_idx,         \* position of the for loop over exec.commands
  shown,           \* shown[h]: the channel whose step showed handle h
  closed,          \* handles on which close() was called
  stepLog,         \* the side effects of the current handling step, in order
  prev_handle,     \* the slot's content when the step began
  time_val,        \* generate_body: the fetched time-to-empty (i64 seconds)
  percentage,      \* generate_body: the fetched percentage (in tenths)
  formatted,       \* generate_body: format_duration's result for {time}
  template,        \* generate_body: the body template, as characters
  body,            \* generate_body: the rendered body
  device,          \* the UPower display device's current metrics
  start,           \* select!: the random branch polled first
  listener,        \* the ctrl_c() future of the current select!
  disabled,        \* select!: branches whose stream returned None
  ended,           \* streams the transport has closed
  installed,       \* tokio's SIGINT handler replaces the default disposition
  sigPending,      \* a SIGINT received and not yet broadcast to listeners
  signals,         \* SIGINTs sent so far
  fired            \* a SIGINT reached the installed handler

vars ==
  <<config, pc, stream, emitted, taken, notification, active_handle,
    selected_config, event, cmd_idx, shown, closed, stepLog, prev_handle,
    time_val, percentage, formatted, template, body, device, start, listener,
    disabled, ended, installed, sigPending, signals, fired>>

envVars == <<stream, emitted, ended>>
sigVars == <<installed, sigPending, signals, fired>>
stepVars ==
  <<active_handle, selected_config, event, cmd_idx, stepLog, prev_handle,
    time_val, percentage, formatted>>
handleVars == <<notification, shown, closed>>
selVars == <<start, listener, disabled>>
bodyVars == <<template, body>>

NoEvent == [seq |-> 0, val |-> "-"]
NoEntry == <<"-", "-">>

Init ==
  /\ config \in Configs
  /\ pc = "top"
  /\ stream = [c \in Channels |-> <<>>]
  /\ emitted = [c \in Channels |-> 0]
  /\ taken = [c \in Channels |-> 0]
  /\ notification = [c \in Channels |-> NoHandle]
  /\ active_handle = "-"
  /\ selected_config = NoEntry
  /\ event = NoEvent
  /\ cmd_idx = 0
  /\ shown = <<>>
  /\ closed = {}
  /\ stepLog = <<>>
  /\ prev_handle = NoHandle
  /\ time_val = 0
  /\ percentage = 0
  /\ formatted = ""
  /\ template = <<>>
  /\ body = ""
  /\ device = StartDevice
  /\ start = 0
  /\ listener = "none"
  /\ disabled = {}
  /\ ended = {}
  /\ installed = FALSE
  /\ sigPending = FALSE
  /\ signals = 0
  /\ fired = FALSE

Running == pc \notin {"exit_ok", "exit_err", "killed"}

\* ------------------------------------------------------------ environment
\* The battery's metrics change (an action of SpecFresh; in Spec they keep
\* their values of the start).
DeviceChange ==
  /\ Running
  /\ device' \in Devices \ {device}
  /\ UNCHANGED <<config, bodyVars, pc, envVars, taken, handleVars, stepVars,
                 selVars, sigVars>>

\* The elements the transport has put on the two streams so far: the change
\* events and, for a closed stream, the None that ends it.
Yielded == emitted["warning"] + emitted["state"] + Cardinality(ended)

\* The property-watch transport emits a change event on channel c.
Emit(c) ==
  /\ Running
  /\ c \notin ended
  /\ Yielded < MaxEvents
  /\ \E v \in Variants(c) :
       stream' = [stream EXCEPT ![c] = Append(@, [seq |-> emitted[c] + 1, val |-> v])]
  /\ emitted' = [emitted EXCEPT ![c] = @ + 1]
  /\ UNCHANGED <<config, device, bodyVars,
                 pc, taken, ended, handleVars, stepVars, selVars, sigVars>>

\* The transport closes stream c: after the buffered events, next() is None.
EndStream(c) ==
  /\ Running
  /\ c \notin ended
  /\ Yielded < MaxEvents
  /\ ended' = ended \cup {c}
  /\ UNCHANGED <<config, device, bodyVars,
                 pc, stream, emitted, taken, handleVars, stepVars,
                 selVars, sigVars>>

\* SIGINT is sent to the process.  Before the first ctrl_c() future has been
\* polled the default disposition is in place and the process is killed;
\* afterwards tokio's handler records the signal for its driver.
Signal ==
  /\ Running
  /\ signals < MaxSignals
  /\ signals' = signals + 1
  /\ IF installed
       THEN /\ sigPending' = TRUE
            /\ fired' = TRUE
            /\ pc' = pc
       ELSE /\ pc' = "killed"
            /\ UNCHANGED <<sigPending, fired>>
  /\ UNCHANGED <<config, device, bodyVars,
                 envVars, taken, handleVars, stepVars, selVars, installed>>

\* tokio's signal driver broadcasts a recorded SIGINT to the listeners that
\* are registered at that moment; with none registered it is dropped.
Broadcast ==
  /\ Running
  /\ sigPending
  /\ sigPending' = FALSE
  /\ listener' = IF listener = "armed" THEN "notified" ELSE listener
  /\ UNCHANGED <<config, device, bodyVars,
                 pc, envVars, taken, handleVars, stepVars, start,
                 disabled, installed, signals, fired>>

\* ---------------------------------------------------------------- select!
\* The branches of the select! in source order.
BranchWarning == 0
BranchState == 1
BranchCtrlC == 2
Branches == 3

\* A stream branch that loses the elements buffered behind the one it takes.
PollStreamDrain(s, c) ==
  IF c \in s.disabled THEN s
  ELSE IF s.stream[c] # <<>>
    THEN [s EXCEPT !.out = c, !.msg = Head(s.stream[c]), !.stream[c] = <<>>]
  ELSE IF c \in ended THEN [s EXCEPT !.disabled = @ \cup {c}]
  ELSE s

\* A stream branch whose None ends the loop like the ctrl_c branch does.
PollStreamEndBreaks(s, c) ==
  IF c \in s.disabled THEN s
  ELSE IF s.stream[c] # <<>>
    THEN [s EXCEPT !.out = c, !.msg = Head(s.stream[c]),
                   !.stream[c] = Tail(s.stream[c])]
  ELSE IF c \in ended THEN [s EXCEPT !.out = "ctrl_c"]
  ELSE s

\* One poll of a stream branch, `Some(msg) = <stream>.next()`: an element is
\* taken from the head; None (stream closed and drained) fails the pattern
\* and disables the branch; an open empty stream is pending.
PollStream(s, c) ==
  IF c \in s.disabled THEN s
  ELSE IF s.stream[c] # <<>>
    THEN [s EXCEPT !.out = c, !.msg = Head(s.stream[c]),
                   !.stream[c] = Tail(s.stream[c])]
  ELSE IF c \in ended THEN [s EXCEPT !.disabled = @ \cup {c}]
  ELSE s

\* One poll of `_ = tokio::signal::ctrl_c()`: the first poll registers the
\* listener (installing the process-wide handler); it completes once a
\* SIGINT has been broadcast to it.
PollCtrlC(s) ==
  CASE s.listener = "none" -> [s EXCEPT !.listener = "armed", !.installed = TRUE]
    [] s.listener = "armed" -> s
    [] s.listener = "notified" -> [s EXCEPT !.out = "ctrl_c"]

\* The select! polls a branch only while no earlier branch has completed.
PollBranch(s, b) ==
  IF s.out # "pending" THEN s
  ELSE IF b = BranchCtrlC THEN PollCtrlC(s)
  ELSE PollStream(s, IF b = BranchWarning THEN "warning" ELSE "state")

\* One poll of the select!: the branches in rotation from branch st.
Poll(st) ==
  LET s0 == [stream |-> stream, disabled |-> disabled, listener |-> listener,
             installed |-> installed, start |-> st, out |-> "pending",
             msg |-> NoEvent]
      s1 == PollBranch(s0, st % Branches)
      s2 == PollBranch(s1, (st + 1) % Branches)
  IN  PollBranch(s2, (st + 2) % Branches)

\* A shutdown that closes the notifications still in the slots.
DropHandlesClosing(cl) == cl \cup ({notification[c] : c \in Channels} \ {NoHandle})

\* main returns after the break: the two slots are dropped, and dropping a
\* NotificationHandle closes nothing.
DropHandles(cl) == cl

\* The outcome of a poll: still pending, the ctrl_c branch (break), or a
\* stream branch, whose handler starts with msg.get().
Selected(s) ==
  /\ installed' = s.installed
  /\ stream' = s.stream
  /\ IF s.out = "pending"
       THEN /\ pc' = "select"
            /\ listener' = s.listener
            /\ disabled' = s.disabled
            /\ start' = s.start
            /\ UNCHANGED <<taken, stepVars, closed>>
       ELSE \* the select! returns and drops its branch futures
            /\ listener' = "none"
            /\ disabled' = {}
            /\ start' = 0
            /\ IF s.out = "ctrl_c"
                 THEN /\ pc' = "exit_ok"
                      /\ closed' = DropHandles(closed)
                      /\ UNCHANGED <<taken, stepVars>>
                 ELSE /\ pc' = (IF s.out = "warning" THEN "warning_get" ELSE "state_get")
                      /\ taken' = [taken EXCEPT ![s.out] = @ + 1]
                      /\ event' = s.msg
                      /\ active_handle' = "-"
                      /\ selected_config' = NoEntry
                      /\ cmd_idx' = 0
                      /\ stepLog' = <<>>
                      /\ prev_handle' = NoHandle
                      /\ UNCHANGED <<time_val, percentage, formatted, closed>>
  /\ UNCHANGED <<config, device, bodyVars, emitted, ended, notification, shown,
                 sigPending, signals, fired>>

\* Top of the loop: a new select! picks its random start and is polled.
SelectEnter ==
  /\ pc = "top"
  /\ \E st \in 0 .. Branches - 1 : Selected(Poll(st))

\* A pending select! is polled again when one of its branches was woken.
SelectWake ==
  /\ pc = "select"
  /\ \/ listener = "notified"
     \/ \E c \in Channels \ disabled : stream[c] # <<>> \/ c \in ended
  /\ Selected(Poll(start))

\* ---------------------------------------------------------------- resolver
\* main.rs:105-112, the match on the WarningLevel event.
ResolveWarning(ev) ==
  CASE ev = "Unknown" -> <<"warning_level", "unknown">>
    [] ev = "None" -> <<"warning_level", "none">>
    [] ev = "Discharging" -> <<"warning_level", "discharging">>
    [] ev = "Low" -> <<"warning_level", "low">>
    [] ev = "Critical" -> <<"warning_level", "critical">>
    [] ev = "Action" -> <<"warning_level", "action">>

\* A match with a copy-pasted arm: FullyCharged resolves to charging.
ResolveStateCopied(ev) ==
  CASE ev = "Unknown" -> <<"state", "unknown">>
    [] ev = "Charging" -> <<"state", "charging">>
    [] ev = "Discharging" -> <<"state", "discharging">>
    [] ev = "Empty" -> <<"state", "empty">>
    [] ev = "FullyCharged" -> <<"state", "charging">>
    [] ev = "PendingCharge" -> <<"state", "pending_charge">>
    [] ev = "PendingDischarge" -> <<"state", "pending_discharge">>

\* main.rs:119-127, the match on the State event.
ResolveState(ev) ==
  CASE ev = "Unknown" -> <<"state", "unknown">>
    [] ev = "Charging" -> <<"state", "charging">>
    [] ev = "Discharging" -> <<"state", "discharging">>
    [] ev = "Empty" -> <<"state", "empty">>
    [] ev = "FullyCharged" -> <<"state", "fully_charged">>
    [] ev = "PendingCharge" -> <<"state", "pending_charge">>
    [] ev = "PendingDischarge" -> <<"state", "pending_discharge">>

Resolve(c, ev) == IF c = "warning" THEN ResolveWarning(ev) ELSE ResolveState(ev)

\* parts.join(sep)
RECURSIVE Join(_, _)
Join(parts, sep) ==
  IF parts = <<>> THEN ""
  ELSE IF Len(parts) = 1 THEN parts[1]
  ELSE parts[1] \o sep \o Join(Tail(parts), sep)

\* ------------------------------------------------------------------- u64
\* A u64 is kept as four limbs of five decimal digits, most significant
\* first, so that its arithmetic is exact at the full width of 64 bits.
Limb == 100000

\* 2^64 = 18446744073709551616
TwoPow64 == <<18446, 74407, 37095, 51616>>

\* The u64 of a small non-negative integer.
ToU64(n) == <<0, 0, n \div Limb, n % Limb>>

\* x - y on limbs, for x >= y.
SubU64(x, y) ==
  LET d4 == x[4] - y[4]
      b4 == IF d4 < 0 THEN 1 ELSE 0
      d3 == x[3] - y[3] - b4
      b3 == IF d3 < 0 THEN 1 ELSE 0
      d2 == x[2] - y[2] - b3
      b2 == IF d2 < 0 THEN 1 ELSE 0
      d1 == x[1] - y[1] - b2
  IN  <<d1, d2 + b2 * Limb, d3 + b3 * Limb, d4 + b4 * Limb>>

\* x / k and x % k for a u64 x and a small divisor k, by long division.
DivU64(x, k) ==
  LET t2 == (x[1] % k) * Limb + x[2]
      t3 == (t2 % k) * Limb + x[3]
      t4 == (t3 % k) * Limb + x[4]
  IN  [quot |-> <<x[1] \div k, t2 \div k, t3 \div k, t4 \div k>>,
       rem |-> t4 % k]

\* A limb below the leading one, with its leading zeros.
Pad(n) ==
  (IF n < 10 THEN "0000" ELSE IF n < 100 THEN "000"
   ELSE IF n < 1000 THEN "00" ELSE IF n < 10000 THEN "0" ELSE "") \o ToString(n)

\* u64::to_string()
U64ToString(x) ==
  IF x[1] > 0 THEN ToString(x[1]) \o Pad(x[2]) \o Pad(x[3]) \o Pad(x[4])
  ELSE IF x[2] > 0 THEN ToString(x[2]) \o Pad(x[3]) \o Pad(x[4])
  ELSE IF x[3] > 0 THEN ToString(x[3]) \o Pad(x[4])
  ELSE ToString(x[4])

\* `time_val as u64`: the cast of an i64 keeps the 64 bits, so a negative
\* value t becomes 2^64 + t.
AsU64(t) == IF t >= 0 THEN ToU64(t) ELSE SubU64(TwoPow64, ToU64(-t))

\* ------------------------------------------------------- format_duration
\* Minutes that forget the hours already counted.
MinutesTotal(total_seconds) ==
  LET q == DivU64(total_seconds, 60).quot IN q[3] * Limb + q[4]

\* `(total_seconds % 3600) / 60`
Minutes(total_seconds) == DivU64(total_seconds, 3600).rem \div 60

\* format_duration(duration), the duration given by its whole seconds (u64).
format_duration(duration) ==
  LET total_seconds == duration
      hours == DivU64(total_seconds, 3600).quot
      minutes == Minutes(total_seconds)
      hour_str == IF hours = ToU64(1) THEN "hour" ELSE "hours"
      minute_str == IF minutes = 1 THEN "minute" ELSE "minutes"
      parts1 == IF hours # ToU64(0)
                  THEN <<U64ToString(hours) \o " " \o hour_str>>
                  ELSE <<>>
      parts2 == IF minutes > 0
                  THEN Append(parts1, ToString(minutes) \o " " \o minute_str)
                  ELSE parts1
      parts3 == IF parts2 = <<>> THEN <<"0 minutes">> ELSE parts2
  IN  Join(parts3, ", ")

\* ---------------------------------------------------------- generate_body
\* The two placeholders, as characters.
TimeToken == <<"{", "t", "i", "m", "e", "}">>
PercentageToken == <<"{", "p", "e", "r", "c", "e", "n", "t", "a", "g", "e", "}">>

\* A replace that stops after the first match (str::replacen(from, to, 1)).
RECURSIVE ReplaceFirst(_, _, _)
ReplaceFirst(s, from, to) ==
  IF Len(s) < Len(from) THEN s
  ELSE IF SubSeq(s, 1, Len(from)) = from
    THEN <<to>> \o SubSeq(s, Len(from) + 1, Len(s))
  ELSE <<s[1]>> \o ReplaceFirst(Tail(s), from, to)

\* str::replace(from, to): every non-overlapping match of from, found from
\* left to right, becomes to.  The text is a sequence of characters; the
\* inserted text is one element, which no later match can span because it
\* holds no brace.
RECURSIVE Replace(_, _, _)
Replace(s, from, to) ==
  IF Len(s) < Len(from) THEN s
  ELSE IF SubSeq(s, 1, Len(from)) = from
    THEN <<to>> \o Replace(SubSeq(s, Len(from) + 1, Len(s)), from, to)
  ELSE <<s[1]>> \o Replace(Tail(s), from, to)

\* f64::to_string() of a percentage kept in tenths: 42.5 is "42.5", 100.0
\* is "100".
PercentageToString(p) ==
  IF p % 10 = 0 THEN ToString(p \div 10)
  ELSE ToString(p \div 10) \o "." \o ToString(p % 10)

\* generate_body after its two fetches (main.rs:173-176).
generate_body(tmpl, t, p) ==
  LET time == AsU64(t)
  IN  Join(Replace(Replace(tmpl, TimeToken, format_duration(time)),
                   PercentageToken, PercentageToString(p)), "")

\* ----------------------------------------------------------- handling step
\* An entry of the step log: the operation, its command or handle, and
\* whether the external call succeeded.
Log(op, cmd, h, ok) == [op |-> op, cmd |-> cmd, h |-> h, ok |-> ok]

Commands == config[selected_config].commands

\* A spawn failure that ends the for loop (the later commands are skipped).
AfterSpawnBreak(ok, idx, n) == IF ~ok \/ idx >= n THEN "close" ELSE "exec"

\* A for loop that tests for the cancellation between two commands.
AfterSpawnCancel(ok, idx, n) ==
  IF fired THEN "exit_ok" ELSE IF idx >= n THEN "close" ELSE "exec"

\* A failed spawn that abandons the step: main goes back to the select!.
AfterSpawnYield(ok, idx, n) ==
  IF ~ok THEN "top" ELSE IF idx >= n THEN "close" ELSE "exec"

\* A for loop that spawns nothing.
AfterSpawnNone(ok, idx, n) == "close"

\* Where main goes after the for loop over the commands has advanced past
\* command idx of n: the loop body again, or the take()/close() at line 145.
AfterSpawn(ok, idx, n) == IF idx >= n THEN "close" ELSE "exec"

\* An error that is swallowed: the loop goes on with the next iteration.
FailContinue == "top"

\* `?` in main: the error is returned from main and the process exits with
\* an error status.
Fail == "exit_err"

\* The branch handler of channel c: `msg.get().await?`, the match that
\* resolves the entry, and the tuple (active_handle, selected_config).
Get(c) ==
  /\ pc = (IF c = "warning" THEN "warning_get" ELSE "state_get")
  /\ \/ /\ selected_config' = Resolve(c, event.val)
        /\ active_handle' = c
        /\ prev_handle' = notification[c]
        /\ cmd_idx' = 1
        /\ stepLog' = Append(stepLog, Log("get", "-", NoHandle, TRUE))
        /\ pc' = AfterSpawn(TRUE, 0, Len(config[Resolve(c, event.val)].commands))
     \/ /\ pc' = Fail
        /\ stepLog' = Append(stepLog, Log("get", "-", NoHandle, FALSE))
        /\ UNCHANGED <<selected_config, active_handle, prev_handle, cmd_idx>>
  /\ UNCHANGED <<config, device, bodyVars, envVars, taken, handleVars, event, time_val,
                 percentage, formatted, selVars, sigVars>>

\* One iteration of `for cmd in &selected_config.exec.commands`: the spawn
\* succeeds or fails, a failure is only logged.
Spawn ==
  /\ pc = "exec"
  /\ \E ok \in BOOLEAN :
       /\ stepLog' = Append(stepLog, Log("spawn", Commands[cmd_idx], NoHandle, ok))
       /\ pc' = AfterSpawn(ok, cmd_idx, Len(Commands))
  /\ cmd_idx' = cmd_idx + 1
  /\ UNCHANGED <<config, device, bodyVars, envVars, taken, handleVars, active_handle,
                 selected_config, event, prev_handle, time_val, percentage,
                 formatted, selVars, sigVars>>

\* A take() that drops the previous handle without closing it.
CloseHandleLeak(h) == closed

\* handle.close(): the handle is closed on the notification server.
CloseHandle(h) == closed \cup {h}

\* A loop body that shows the notification whatever n_cfg.enable is.
AfterCloseAlways(enable) == "time_to_empty"

\* `if n_cfg.enable { ... }`: generate_body and the show, or the end of the
\* loop body.
AfterClose(enable) == IF enable THEN "time_to_empty" ELSE "top"

\* A take() that leaves the handle in the slot.
TakeKeep(c) == notification

\* `active_handle.take()`: the slot is left empty.
Take(c) == [notification EXCEPT ![c] = NoHandle]

\* `if let Some(handle) = active_handle.take() { handle.close(); }` and the
\* test of n_cfg.enable.
Close ==
  /\ pc = "close"
  /\ LET h == notification[active_handle] IN
       /\ notification' = Take(active_handle)
       /\ IF h # NoHandle
            THEN /\ closed' = CloseHandle(h)
                 /\ stepLog' = Append(stepLog, Log("close", "-", h, TRUE))
            ELSE UNCHANGED <<closed, stepLog>>
  /\ pc' = AfterClose(config[selected_config].enable)
  /\ UNCHANGED <<config, device, bodyVars,
                 envVars, taken, shown, active_handle, selected_config,
                 event, cmd_idx, prev_handle, time_val, percentage, formatted,
                 selVars, sigVars>>

\* A getter that answers with the value read when the program started.
TimeToEmptyCached(d) == StartDevice.time_to_empty

\* The property getters of the proxy: the device's value at the call.
TimeToEmpty(d) == d.time_to_empty
Percentage(d) == d.percentage

\* generate_body: `device.time_to_empty().await?`
FetchTime ==
  /\ pc = "time_to_empty"
  /\ \/ /\ time_val' = TimeToEmpty(device)
        /\ stepLog' = Append(stepLog, Log("time_to_empty", "-", NoHandle, TRUE))
        /\ pc' = "percentage"
     \/ /\ pc' = Fail
        /\ stepLog' = Append(stepLog, Log("time_to_empty", "-", NoHandle, FALSE))
        /\ UNCHANGED time_val
  /\ UNCHANGED <<config, device, bodyVars, envVars, taken, handleVars, active_handle,
                 selected_config, event, cmd_idx, prev_handle, percentage,
                 formatted, selVars, sigVars>>

\* generate_body: `device.percentage().await?`, then the duration is
\* formatted for the body.
FetchPercentage ==
  /\ pc = "percentage"
  /\ \/ /\ percentage' = Percentage(device)
        /\ formatted' = format_duration(AsU64(time_val))
        /\ stepLog' = Append(stepLog, Log("percentage", "-", NoHandle, TRUE))
        /\ pc' = "show"
     \/ /\ pc' = Fail
        /\ stepLog' = Append(stepLog, Log("percentage", "-", NoHandle, FALSE))
        /\ UNCHANGED <<percentage, formatted>>
  /\ UNCHANGED <<config, device, bodyVars, envVars, taken, handleVars, active_handle,
                 selected_config, event, cmd_idx, prev_handle, time_val,
                 selVars, sigVars>>

\* One slot shared by the two streams.
StoreShared(c, h) == [x \in Channels |-> h]

\* The slot after `*active_handle = Some(<handle>)`.
Store(c, h) == [notification EXCEPT ![c] = h]

\* `show_async().await?` and the store of the returned handle.
Show ==
  /\ pc = "show"
  /\ \/ LET h == Len(shown) + 1 IN
          /\ shown' = Append(shown, active_handle)
          /\ notification' = Store(active_handle, h)
          /\ stepLog' = Append(stepLog, Log("show", "-", h, TRUE))
          /\ pc' = "top"
     \/ /\ pc' = Fail
        /\ stepLog' = Append(stepLog, Log("show", "-", NoHandle, FALSE))
        /\ UNCHANGED <<shown, notification>>
  /\ time_val' = 0
  /\ percentage' = 0
  /\ formatted' = ""
  /\ UNCHANGED <<config, device, bodyVars, envVars, taken, closed, active_handle,
                 selected_config, event, cmd_idx, prev_handle, selVars, sigVars>>

\* ----------------------------------------------------------- specification
Step ==
  \/ SelectEnter
  \/ SelectWake
  \/ \E c \in Channels : Get(c)
  \/ Spawn
  \/ Close
  \/ FetchTime
  \/ FetchPercentage
  \/ Show

Env ==
  \/ \E c \in Channels : Emit(c)
  \/ \E c \in Channels : EndStream(c)
  \/ Signal

Next == Step \/ Env \/ Broadcast

Spec == Init /\ [][Next]_vars

\* The runtime keeps polling main and the signal driver keeps running; the
\* environment is not obliged to emit events or signals.
FairSpec == Spec /\ WF_vars(Step) /\ WF_vars(Broadcast)

\* The dispatch loop over a battery whose metrics change while it runs;
\* the streams stay open and no signal is sent.
NextFresh == Step \/ (\E c \in Channels : Emit(c)) \/ DeviceChange

SpecFresh == Init /\ [][NextFresh]_vars

\* format_duration on its own: every whole-second duration up to MaxSeconds.
InitFormat ==
  /\ config = DefaultConfig
  /\ pc = "format"
  /\ stream = [c \in Channels |-> <<>>]
  /\ emitted = [c \in Channels |-> 0]
  /\ taken = [c \in Channels |-> 0]
  /\ notification = [c \in Channels |-> NoHandle]
  /\ active_handle = "-"
  /\ selected_config = NoEntry
  /\ event = NoEvent
  /\ cmd_idx = 0
  /\ shown = <<>>
  /\ closed = {}
  /\ stepLog = <<>>
  /\ prev_handle = NoHandle
  /\ time_val \in 0 .. MaxSeconds
  /\ percentage = 0
  /\ formatted = ""
  /\ template = <<>>
  /\ body = ""
  /\ device = StartDevice
  /\ start = 0
  /\ listener = "none"
  /\ disabled = {}
  /\ ended = {}
  /\ installed = FALSE
  /\ sigPending = FALSE
  /\ signals = 0
  /\ fired = FALSE

Format ==
  /\ pc = "format"
  /\ formatted' = format_duration(ToU64(time_val))
  /\ pc' = "formatted"
  /\ UNCHANGED <<config, device, bodyVars, envVars, taken, handleVars, active_handle,
                 selected_config, event, cmd_idx, stepLog, prev_handle,
                 time_val, percentage, selVars, sigVars>>

SpecFormat == InitFormat /\ [][Format]_vars

\* generate_body on its own: templates of up to MaxTokens words, and
\* time-to-empty values of either sign.
Words ==
  {TimeToken, PercentageToken, <<"{", "n", "}">>, <<"t", "i", "m", "e">>,
   <<"{">>, <<"}">>, <<"%">>}

RECURSIVE Flatten(_)
Flatten(ws) == IF ws = <<>> THEN <<>> ELSE Head(ws) \o Flatten(Tail(ws))

Templates ==
  {Flatten(ws) : ws \in UNION {[1 .. n -> Words] : n \in 0 .. MaxTokens}}

BodyTimes == {-3700, -1, 0, 59, 3661}

InitBody ==
  /\ config = DefaultConfig
  /\ pc = "generate_body"
  /\ stream = [c \in Channels |-> <<>>]
  /\ emitted = [c \in Channels |-> 0]
  /\ taken = [c \in Channels |-> 0]
  /\ notification = [c \in Channels |-> NoHandle]
  /\ active_handle = "-"
  /\ selected_config = NoEntry
  /\ event = NoEvent
  /\ cmd_idx = 0
  /\ shown = <<>>
  /\ closed = {}
  /\ stepLog = <<>>
  /\ prev_handle = NoHandle
  /\ time_val \in BodyTimes
  /\ percentage \in Percentages
  /\ formatted = ""
  /\ template \in Templates
  /\ body = ""
  /\ device = [time_to_empty |-> time_val, percentage |-> percentage]
  /\ start = 0
  /\ listener = "none"
  /\ disabled = {}
  /\ ended = {}
  /\ installed = FALSE
  /\ sigPending = FALSE
  /\ signals = 0
  /\ fired = FALSE

Render ==
  /\ pc = "generate_body"
  /\ formatted' = format_duration(AsU64(time_val))
  /\ body' = generate_body(template, time_val, percentage)
  /\ pc' = "rendered"
  /\ UNCHANGED <<config, device, template, envVars, taken, handleVars,
                 active_handle, selected_config, event, cmd_idx, stepLog,
                 prev_handle, time_val, percentage, selVars, sigVars>>

SpecBody == InitBody /\ [][Render]_vars

\* ------------------------------------------------------------ properties
\* The handles shown by channel c that are open: shown and not yet closed.
Open(c) == {h \in 1 .. Len(shown) : shown[h] = c /\ h \notin closed}

\* The step of the current iteration has resolved its entry.
InStep == active_handle \in Channels

\* The handling step of the last iteration has run to its end.
StepDone == InStep /\ pc \in {"top", "select", "exit_ok"}

IsSpawn(e) == e.op = "spawn"
IsFetchOrShow(e) == e.op \in {"time_to_empty", "percentage", "show"}
Last(q) == q[Len(q)]

\* C1: in every reachable state each channel has at most one notification
\* that was shown by it and is not yet closed.
C1_AtMostOneOpen == \A c \in Channels : Cardinality(Open(c)) <= 1

\* C1 witness: the second notification of a channel replaced the first.
C1_Witness ==
  \E c \in Channels :
    /\ Len(shown) >= 2 /\ shown[1] = c /\ shown[2] = c
    /\ notification[c] = 2 /\ Open(c) = {2}

\* C2: after a step completes without error, the channel's slot is
\* non-empty iff the resolved notification is enabled; enabled: the slot
\* holds the handle this step's show returned; disabled: the handle that was
\* in the slot is closed, the slot is empty, nothing was fetched or shown.
C2_SlotAfterStep ==
  StepDone =>
    LET c == active_handle
        en == config[selected_config].enable
    IN  /\ (notification[c] # NoHandle) <=> en
        /\ prev_handle # NoHandle => prev_handle \in closed
        /\ en => /\ Last(stepLog).op = "show" /\ Last(stepLog).ok
                 /\ notification[c] = Last(stepLog).h
                 /\ shown[notification[c]] = c
                 /\ notification[c] \notin closed
                 /\ notification[c] # prev_handle
        /\ ~en => SelectSeq(stepLog, IsFetchOrShow) = <<>>

\* C2 witness: a disabled event completed on a channel that held a handle.
C2_Witness ==
  /\ StepDone
  /\ ~config[selected_config].enable
  /\ prev_handle # NoHandle
  /\ notification[active_handle] = NoHandle

\* The channel whose event main is handling, "-" between steps.
Handling ==
  CASE pc = "warning_get" -> "warning"
    [] pc = "state_get" -> "state"
    [] pc \in {"exec", "close", "time_to_empty", "percentage", "show"} -> active_handle
    [] OTHER -> "-"

\* C3: no step of the handling of an event on one channel changes the
\* other channel's slot or closes or replaces the other channel's handle.
C3_CrossChannel ==
  [][\A c \in Channels :
       c # Handling =>
         /\ notification'[c] = notification[c]
         /\ {h \in 1 .. Len(shown') : shown'[h] = c /\ h \notin closed'} = Open(c)]_vars

\* C3 witness: a step on the state channel showed a notification while the
\* warning channel held an open one.
C3_Witness ==
  /\ StepDone
  /\ active_handle = "state"
  /\ notification["state"] # NoHandle
  /\ notification["warning"] # NoHandle
  /\ Open("warning") = {notification["warning"]}

\* C4: every command of the resolved list is attempted exactly once, in
\* list order, whatever spawns fail; a failed spawn never ends the step or
\* the loop (only a SIGINT that kills the process can cut the list short).
C4_CommandIsolation ==
  InStep =>
    LET sp == SelectSeq(stepLog, IsSpawn)
        cmds == config[selected_config].commands
    IN  /\ pc = "exec" => cmd_idx \in 1 .. Len(cmds) /\ Len(sp) = cmd_idx - 1
        /\ pc \notin {"exec", "killed"} => Len(sp) = Len(cmds)
        /\ \A i \in 1 .. Len(sp) : sp[i].cmd = cmds[i]
        /\ pc = "exit_err" => ~IsSpawn(Last(stepLog))

\* C4 witness: the first spawn failed, the second succeeded, and the step
\* went on to show its notification.
C4_Witness ==
  /\ StepDone
  /\ Len(config[selected_config].commands) = 2
  /\ LET sp == SelectSeq(stepLog, IsSpawn) IN
       Len(sp) = 2 /\ ~sp[1].ok /\ sp[2].ok
  /\ Last(stepLog).op = "show" /\ Last(stepLog).ok

\* C5: once the cancellation signal has fired, no further event is taken
\* from a stream, even when events are buffered.
C5_NoEventAfterCancel == [][fired => taken' = taken]_vars

\* C6: whenever the cancellation signal fires while the loop is running,
\* a handling step in flight or not, the loop eventually exits: cleanly, or
\* with the transport error of the step in flight.
C6_CancelLiveness == (fired /\ Running) ~> (pc \in {"exit_ok", "exit_err"})

\* C7: the events of a channel are handled in the stream's arrival order,
\* each exactly once: what was emitted is what was taken followed by what is
\* buffered, in sequence, and the event in hand is the last one taken.
C7_ChannelOrder ==
  /\ \A c \in Channels :
       /\ emitted[c] = taken[c] + Len(stream[c])
       /\ \A i \in 1 .. Len(stream[c]) : stream[c][i].seq = taken[c] + i
  /\ Handling \in Channels => event.seq = taken[Handling]

\* C7 witness: the second event of the warning channel is handled after the
\* first, which had been taken while the second was already buffered.
C7_Witness ==
  /\ pc = "close"
  /\ active_handle = "warning"
  /\ event.seq = 2
  /\ emitted["warning"] = 2

\* The step in flight failed in generate_body's fetches or in the show.
TransportFailed ==
  /\ stepLog # <<>>
  /\ IsFetchOrShow(Last(stepLog))
  /\ ~Last(stepLog).ok

ShowsOf(log) == SelectSeq(log, LAMBDA e : e.op = "show" /\ e.ok)

\* C8: a failed metrics fetch or show ends main with the error: no handle
\* is stored for the step, and afterwards no event is taken and nothing is
\* spawned, closed, fetched or shown.
C8_TransportFatal ==
  /\ [](TransportFailed =>
          /\ pc = "exit_err"
          /\ notification[active_handle] = NoHandle
          /\ ShowsOf(stepLog) = <<>>)
  /\ [][pc = "exit_err" =>
          /\ pc' = "exit_err"
          /\ taken' = taken
          /\ stepLog' = stepLog
          /\ notification' = notification
          /\ shown' = shown
          /\ closed' = closed]_vars

\* C8 witness: the show failed on a channel whose previous handle the step
\* had closed.
C8_Witness ==
  /\ pc = "exit_err"
  /\ Last(stepLog).op = "show"
  /\ prev_handle # NoHandle

\* The words of the variant names (CamelCase, main.rs:30-49) and of the
\* field names (snake_case, config.rs:11-29).
VariantWords(v) ==
  CASE v = "Unknown" -> <<"unknown">>
    [] v = "None" -> <<"none">>
    [] v = "Discharging" -> <<"discharging">>
    [] v = "Low" -> <<"low">>
    [] v = "Critical" -> <<"critical">>
    [] v = "Action" -> <<"action">>
    [] v = "Charging" -> <<"charging">>
    [] v = "Empty" -> <<"empty">>
    [] v = "FullyCharged" -> <<"fully", "charged">>
    [] v = "PendingCharge" -> <<"pending", "charge">>
    [] v = "PendingDischarge" -> <<"pending", "discharge">>

FieldWords(f) ==
  CASE f = "unknown" -> <<"unknown">>
    [] f = "none" -> <<"none">>
    [] f = "discharging" -> <<"discharging">>
    [] f = "low" -> <<"low">>
    [] f = "critical" -> <<"critical">>
    [] f = "action" -> <<"action">>
    [] f = "charging" -> <<"charging">>
    [] f = "empty" -> <<"empty">>
    [] f = "fully_charged" -> <<"fully", "charged">>
    [] f = "pending_charge" -> <<"pending", "charge">>
    [] f = "pending_discharge" -> <<"pending", "discharge">>

TableOf(c) == IF c = "warning" THEN "warning_level" ELSE "state"

\* C9: the entry a step works on is the entry of the same name as the
\* event's variant, in the table of the event's stream, and no other variant
\* of that stream resolves to it; every variant of WarningLevel and of State
\* is resolved this way (the match has no fallback arm).
C9_ResolverTotal ==
  InStep =>
    /\ selected_config \in Entries
    /\ selected_config[1] = TableOf(active_handle)
    /\ FieldWords(selected_config[2]) = VariantWords(event.val)
    /\ \A w \in Variants(active_handle) :
         Resolve(active_handle, w) = selected_config => w = event.val

\* C9 witness: a FullyCharged event resolved to state.fully_charged.
C9_Witness ==
  /\ InStep
  /\ active_handle = "state"
  /\ event.val = "FullyCharged"
  /\ selected_config = <<"state", "fully_charged">>

\* The phrase of section 4.3 for d whole seconds.
Phrase(n, unit) == ToString(n) \o " " \o unit \o (IF n = 1 THEN "" ELSE "s")

Expected(d) ==
  LET h == d \div 3600
      m == (d % 3600) \div 60
  IN  CASE h > 0 /\ m > 0 -> Phrase(h, "hour") \o ", " \o Phrase(m, "minute")
        [] h > 0 /\ m = 0 -> Phrase(h, "hour")
        [] h = 0 /\ m > 0 -> Phrase(m, "minute")
        [] OTHER -> "0 minutes"

\* C10: format_duration returns the hours clause only if h > 0, then the
\* minutes clause only if m > 0, joined by ", ", singular exactly at 1, and
\* "0 minutes" when both are zero; with the five examples of the spec.
C10_FormatDuration ==
  pc = "formatted" =>
    /\ formatted = Expected(time_val)
    /\ time_val = 0 => formatted = "0 minutes"
    /\ time_val = 59 => formatted = "0 minutes"
    /\ time_val = 60 => formatted = "1 minute"
    /\ time_val = 3600 => formatted = "1 hour"
    /\ time_val = 3661 => formatted = "1 hour, 1 minute"
    /\ time_val = 7320 => formatted = "2 hours, 2 minutes"

\* C10 witness: 3661 seconds were formatted as "1 hour, 1 minute".
C10_Witness ==
  /\ pc = "formatted"
  /\ time_val = 3661
  /\ formatted = "1 hour, 1 minute"

\* C11: when the device reports a negative time-to-empty, the duration is
\* zero and {time} is rendered as "0 minutes".
C11_NegativeIsZero ==
  (pc = "rendered" /\ time_val < 0) => formatted = "0 minutes"

\* tok occurs in s at position i.
At(s, i, tok) ==
  /\ i + Len(tok) - 1 <= Len(s)
  /\ SubSeq(s, i, i + Len(tok) - 1) = tok

\* Position i of s lies inside an occurrence of tok, after its first
\* character.
Covered(s, i, tok) ==
  \E k \in 1 .. Len(tok) - 1 : i - k >= 1 /\ At(s, i - k, tok)

\* What position i of the template contributes to the body: the value at
\* the start of a placeholder, nothing inside one, its own character
\* elsewhere.
RenderedAt(s, i, t, p) ==
  IF At(s, i, TimeToken) THEN t
  ELSE IF At(s, i, PercentageToken) THEN p
  ELSE IF Covered(s, i, TimeToken) \/ Covered(s, i, PercentageToken) THEN ""
  ELSE s[i]

ExpectedBody(s, t, p) ==
  Join([i \in 1 .. Len(s) |-> RenderedAt(s, i, t, p)], "")

\* C12: the rendered body is the template with every occurrence of {time}
\* replaced by the formatted duration and every occurrence of {percentage}
\* by the percentage, every other character verbatim; a template with
\* neither placeholder is returned unchanged.
C12_TemplateRendering ==
  pc = "rendered" =>
    /\ body = ExpectedBody(template, formatted, PercentageToString(percentage))
    /\ (\A i \in 1 .. Len(template) :
          ~At(template, i, TimeToken) /\ ~At(template, i, PercentageToken))
       => body = Join(template, "")

\* C12 witness: a template with {time} twice and {percentage} once.
C12_Witness ==
  /\ pc = "rendered"
  /\ template = TimeToken \o TimeToken \o PercentageToken
  /\ time_val = 3661
  /\ percentage = 425
  /\ body = "1 hour, 1 minute1 hour, 1 minute42.5"

\* The entries of the step log with operation op.
OpsOf(log, op) == SelectSeq(log, LAMBDA e : e.op = op)

\* C13: close is invoked only on a handle that an earlier show of the same
\* channel returned and that is not closed yet: a slot never holds a closed
\* handle, a step on an empty slot closes nothing, a step closes at most one
\* handle, and when a channel shows again its earlier handles are closed.
C13_CloseDiscipline ==
  /\ [](\A c \in Channels :
          notification[c] # NoHandle =>
            /\ notification[c] \in 1 .. Len(shown)
            /\ shown[notification[c]] = c
            /\ notification[c] \notin closed)
  /\ [](InStep =>
          /\ Len(OpsOf(stepLog, "close")) <= 1
          /\ prev_handle = NoHandle => OpsOf(stepLog, "close") = <<>>)
  /\ [][closed' # closed =>
          /\ pc = "close"
          /\ \E h \in 1 .. Len(shown) :
               /\ h \notin closed
               /\ shown[h] = active_handle
               /\ h = notification[active_handle]
               /\ closed' = closed \cup {h}]_vars
  /\ [][Len(shown') > Len(shown) =>
          \A h \in 1 .. Len(shown) : shown[h] = active_handle => h \in closed]_vars

\* C13 witness: the second show of a channel, after the close of its first
\* handle in the same step.
C13_Witness ==
  \E c \in Channels :
    /\ shown = <<c, c>>
    /\ closed = {1}
    /\ prev_handle = 1
    /\ Len(OpsOf(stepLog, "close")) = 1
    /\ Last(stepLog).op = "show" /\ Last(stepLog).h = 2

\* The place of an operation in the handling step.
Rank(op) ==
  CASE op = "get" -> 0
    [] op = "spawn" -> 1
    [] op = "close" -> 2
    [] op = "time_to_empty" -> 3
    [] op = "percentage" -> 4
    [] op = "show" -> 5

\* C14: within one handling step the commands of the resolved entry are all
\* spawned first, in order, whatever the enable flag and the slot are; then
\* the previous handle is closed, then time-to-empty and percentage are
\* fetched, then the notification is shown and its handle stored.  No
\* close, fetch or show precedes a spawn of the step.
C14_StepOrdering ==
  InStep =>
    LET sp == OpsOf(stepLog, "spawn") IN
      /\ \A i, j \in 1 .. Len(stepLog) :
           i < j =>
             /\ Rank(stepLog[i].op) <= Rank(stepLog[j].op)
             /\ stepLog[j].op # "spawn" => Rank(stepLog[i].op) < Rank(stepLog[j].op)
      /\ \A i \in 1 .. Len(sp) : i <= Len(Commands) /\ sp[i].cmd = Commands[i]
      /\ (\E j \in 1 .. Len(stepLog) : Rank(stepLog[j].op) >= 2)
           => Len(sp) = Len(Commands)
      /\ pc \in {"close", "time_to_empty", "percentage", "show"}
           => Len(sp) = Len(Commands)
      /\ (stepLog # <<>> /\ Last(stepLog).op = "show" /\ Last(stepLog).ok)
           => notification[active_handle] = Last(stepLog).h

\* C14 witness: a step that ran two commands, closed the previous handle,
\* fetched both metrics and showed.
C14_Witness ==
  /\ InStep
  /\ Len(stepLog) = 7
  /\ [i \in 1 .. 7 |-> stepLog[i].op] =
       <<"get", "spawn", "spawn", "close", "time_to_empty", "percentage", "show">>
  /\ Last(stepLog).ok

\* The handling step of the last iteration ran its whole sequence: every
\* command, the take of the slot, and for an enabled entry both fetches and
\* the show whose handle is stored.
StepComplete ==
  /\ Len(OpsOf(stepLog, "spawn")) = Len(Commands)
  /\ IF config[selected_config].enable
       THEN /\ Last(stepLog).op = "show" /\ Last(stepLog).ok
            /\ Len(OpsOf(stepLog, "time_to_empty")) = 1
            /\ Len(OpsOf(stepLog, "percentage")) = 1
            /\ notification[active_handle] = Last(stepLog).h
       ELSE /\ \A i \in 1 .. Len(stepLog) : ~IsFetchOrShow(stepLog[i])
            /\ notification[active_handle] = NoHandle

\* C15: an iteration selects one event and runs its whole handling step
\* before another event is selected: an event is taken only at the select,
\* after the previous step is complete; while a step is in flight the event
\* in hand and its channel do not change, and an event that arrives
\* meanwhile only joins its stream.
C15_SingleFlight ==
  /\ [][taken' # taken =>
          /\ pc \in {"top", "select"}
          /\ InStep => StepComplete
          /\ \E c \in Channels :
               /\ taken' = [taken EXCEPT ![c] = @ + 1]
               /\ Handling' = c]_vars
  /\ [][(Handling \in Channels) =>
          /\ taken' = taken
          /\ event' = event
          /\ Handling' \in {Handling, "-"}
          /\ emitted' # emitted => pc' = pc /\ stepLog' = stepLog]_vars

\* C15 witness: a warning step is about to show while a state event that
\* nothing has taken waits in its stream.
C15_Witness ==
  /\ pc = "show"
  /\ active_handle = "warning"
  /\ stream["state"] # <<>>
  /\ taken["state"] = 0

C17_FreshMetrics ==
  /\ [][(pc = "time_to_empty" /\ pc' = "percentage") =>
          time_val' = device.time_to_empty]_vars
  /\ [][(pc = "percentage" /\ pc' = "show") =>
          /\ percentage' = device.percentage
          /\ time_val' = time_val
          /\ formatted' = format_duration(AsU64(time_val))]_vars
  /\ [][(pc = "show" /\ pc' = "show") =>
          /\ time_val' = time_val
          /\ percentage' = percentage
          /\ formatted' = formatted]_vars
  /\ [](pc = "show" =>
          /\ Len(stepLog) >= 3
          /\ stepLog[Len(stepLog) - 1].op = "time_to_empty"
          /\ Last(stepLog).op = "percentage"
          /\ \A i \in 1 .. Len(stepLog) - 2 : Rank(stepLog[i].op) <= 2)
  /\ [](InStep =>
          /\ Len(OpsOf(stepLog, "time_to_empty")) <= 1
          /\ Len(OpsOf(stepLog, "percentage")) <= 1
          /\ ~config[selected_config].enable =>
               \A i \in 1 .. Len(stepLog) : ~IsFetchOrShow(stepLog[i]))

\* C17 witness: both metrics changed after the program started and the
\* body about to be shown carries the new values.
C17_Witness ==
  /\ pc = "show"
  /\ time_val = 0 /\ percentage = 1000
  /\ formatted = "0 minutes"
  /\ device = [time_to_empty |-> 0, percentage |-> 1000]

\* C18: the exit on cancellation closes nothing: the step to the clean exit
\* leaves the slots, the shown and the closed handles as they are, so every
\* handle in a slot at that moment stays open, and nothing happens to the
\* handles afterwards.
C18_NoCleanupAtExit ==
  /\ [][pc' = "exit_ok" =>
          /\ handleVars' = handleVars
          /\ stepLog' = stepLog]_vars
  /\ [](pc = "exit_ok" =>
          \A c \in Channels :
            notification[c] # NoHandle => Open(c) = {notification[c]})

\* C18 witness: the loop has exited on cancellation with an open
\* notification in each slot.
C18_Witness ==
  /\ pc = "exit_ok"
  /\ \A c \in Channels : notification[c] # NoHandle
  /\ closed = {}

\* C19: a step that fails is not rolled back.  When a fetch or the show
\* fails, every command of the event has been spawned, the previous handle
\* is closed and the slot is empty, so the channel has no open notification
\* when the process ends.  When msg.get() fails, the process ends before
\* any command, close or show of the event.
C19_NoRollback ==
  /\ [](pc = "exit_err" =>
          /\ stepLog # <<>>
          /\ ~Last(stepLog).ok
          /\ Last(stepLog).op \in {"get", "time_to_empty", "percentage", "show"}
          /\ IsFetchOrShow(Last(stepLog)) =>
               /\ InStep
               /\ Len(OpsOf(stepLog, "spawn")) = Len(Commands)
               /\ notification[active_handle] = NoHandle
               /\ Open(active_handle) = {}
               /\ prev_handle # NoHandle =>
                    /\ prev_handle \in closed
                    /\ Len(OpsOf(stepLog, "close")) = 1
          /\ Last(stepLog).op = "get" => Len(stepLog) = 1)
  /\ [][(pc \in {"warning_get", "state_get"} /\ pc' = "exit_err") =>
          handleVars' = handleVars]_vars

\* C19 witness: the show failed after two commands were spawned and the
\* previous notification of the channel was closed.
C19_Witness ==
  /\ pc = "exit_err"
  /\ Last(stepLog).op = "show"
  /\ Len(OpsOf(stepLog, "spawn")) = 2
  /\ prev_handle = 1
  /\ closed = {1}
  /\ notification[active_handle] = NoHandle

\* A stream has ended and main has drained it.
Exhausted(c) == c \in ended /\ stream[c] = <<>>

====
